---- MODULE Spec2Model ----
(***************************************************************************)
(* Model of validate.py, the preflight validation script of the eBPF       *)
(* ransomware detector: five checks run in a fixed order by main(), a      *)
(* gating rule in front of the BPF compilation, and an exit status         *)
(* computed from the collected results.                                    *)
(*                                                                         *)
(* The host is part of the state: the interpreter version, the encoding    *)
(* and the error handler of its stdout, the files of the working           *)
(* directory, the effective uid, what importing bcc does and what the      *)
(* library's BPF(src_file="bpf.c") does there.  The script's own state is  *)
(* main's position, its results list, the locals of the loop of            *)
(* check_files, the lines written to stdout and its return value.          *)
(*                                                                         *)
(* The glyphs the script prints are outside ASCII; the model writes        *)
(* "[v]" for the check mark U+2713, "[x]" for the ballot x U+2717, "[i]"   *)
(* for the information sign U+2139, "[PASS]" and "[FAIL]" for the two      *)
(* banner emoji U+2705 and U+274C.                                         *)
(***************************************************************************)
EXTENDS Integers, Sequences, FiniteSets, TLC

VARIABLES
    version,    \* sys.version_info as <<major, minor, micro>>
    encoding,   \* sys.stdout.encoding
    errors,     \* sys.stdout.errors
    files,      \* names of the files present in the working directory
    uid,        \* os.getuid()
    bccImport,  \* what `from bcc import BPF` does on this host
    bpf,        \* what BPF(src_file="bpf.c", ...) does on this host
    probe,      \* what the BPF(src_file="bpf.c", ...) call of this run did
    pc,         \* position of the process and of main()
    results,    \* main's local list `results`
    i,          \* check_files: index of the file the loop tests next, 0 outside
    all_exist,  \* check_files: its local all_exist
    stdout,     \* lines written so far by this run
    ret,        \* return value of main(), Unset until it returns
    raised,     \* exception that ended the process, "" if none
    calls,      \* how many times each function was entered in this run
    run,        \* 1 for the first run of the script, 2 for the repeated one
    prev        \* how the previous run ended

vars == <<version, encoding, errors, files, uid, bccImport, bpf, probe, pc, results, i,
          all_exist, stdout, ret, raised, calls, run, prev>>

(***************************************************************************)
(* Bounds of the model.                                                    *)
(***************************************************************************)
MaxMajor == 4
MaxMinor == 6
MaxMicro == 1
MaxUid == 1

(***************************************************************************)
(* Constants of the program.                                               *)
(***************************************************************************)
ReqMajor == 3
ReqMinor == 6
RootUid == 0
BannerWidth == 60

required_files == <<"detector.py", "bpf.c", "bpf.h">>
required_maps == <<"config", "patterns", "threshold_patterns", "pidstats", "events">>

Tick == "[v]"
Cross == "[x]"
Info == "[i]"
PassMark == "[PASS]"
FailMark == "[FAIL]"
Glyphs == {Tick, Cross, Info, PassMark, FailMark}

Unset == 0 - 1

Range(s) == {s[k] : k \in DOMAIN s}

(***************************************************************************)
(* The hosts the script is run on.                                         *)
(***************************************************************************)
Majors == 2..MaxMajor
Minors == 0..MaxMinor
Micros == 0..MaxMicro
Versions == Majors \X Minors \X Micros
Uids == 0..MaxUid
FileSets == SUBSET Range(required_files)

\* The file holds f-strings (line 23 on) and, with no coding line, non-ASCII
\* characters (line 13 on): an interpreter older than 3.6 rejects it with a
\* SyntaxError before a single line of it runs.
Compiles(v) == v[1] > 3 \/ (v[1] = 3 /\ v[2] >= 6)

\* The codecs of stdout, one of each kind CPython has: the Unicode codecs
\* encode the five glyphs, the JIS X 0213 codecs the check mark alone, all
\* others none of them.
Codecs == {"utf-8", "shift_jis_2004", "ascii"}

Encodable(enc) ==
    IF enc = "utf-8" THEN Glyphs ELSE IF enc = "shift_jis_2004" THEN {Tick} ELSE {}

\* The error handlers of CPython.  On a character the codec lacks, and that
\* is no surrogate, three of them raise UnicodeEncodeError; the others write
\* something in its place.
Raising == {"strict", "surrogateescape", "surrogatepass"}
Substituting == {"replace", "ignore", "backslashreplace", "xmlcharrefreplace",
                 "namereplace"}

\* The handlers of the hosts of the model: the default of a terminal, that of
\* PYTHONIOENCODING=...:replace, and that of the C locale.
Handlers == {"strict", "replace", "surrogateescape"}

\* The handler makes a difference only where the codec lacks a glyph.
Stdouts ==
    {so \in [encoding : Codecs, errors : Handlers] :
        so.errors = "strict" \/ Encodable(so.encoding) # Glyphs}

\* `from bcc import BPF`: the module loads, is not installed (ImportError), or
\* is installed but fails while loading its shared library (OSError).
ImportOutcomes == {"ok", "ImportError", "OSError"}

ImportMessage(imp) ==
    IF imp = "ImportError" THEN "No module named 'bcc'"
    ELSE "libbcc.so.0: cannot open shared object file"

\* What a call of BPF(...) and the tests `map_name in b` that follow it do.
\* kind "raise": the call raises an exception of class cls with the text msg.
\* kind "ok": the call returns a handle b; maps is the set of names for which
\* `map_name in b` is true; stop = 0 when every test answers, and otherwise
\* the place in required_maps of the name whose test raises cls with msg.
CompileErrors == {"Failed to compile BPF module bpf.c", "Failed to load BPF program"}
MembershipError == "table lookup failed"

\* The classes line 76 catches, and one it does not: SystemExit derives from
\* BaseException alone.
Caught == {"Exception"}
Uncaught == {"SystemExit"}

ProbeUnknown == [kind |-> "unknown", cls |-> "", msg |-> "", maps |-> {}, stop |-> 0]
Raises ==
    {[kind |-> "raise", cls |-> "Exception", msg |-> m, maps |-> {}, stop |-> 0] :
        m \in CompileErrors}
    \cup {[kind |-> "raise", cls |-> c, msg |-> "", maps |-> {}, stop |-> 0] :
            c \in Uncaught}
Handles ==
    {[kind |-> "ok", cls |-> "", msg |-> "", maps |-> T, stop |-> 0] :
        T \in SUBSET Range(required_maps)}
BrokenHandles ==
    UNION {{[kind |-> "ok", cls |-> "Exception", msg |-> MembershipError, maps |-> T,
             stop |-> k] : T \in SUBSET {required_maps[j] : j \in 1..(k - 1)}} :
           k \in DOMAIN required_maps}
ProbeOutcomes == Raises \cup Handles \cup BrokenHandles

\* The test of line 69 answered for every name: the handle told of each
\* table whether it holds it.
Answered(o) == o.kind = "ok" /\ o.stop = 0

\* A file the compiler may leave in the working directory; the name stands
\* for any.
BuildArtifacts == {"bpf.o"}

Functions == {"check_python_version", "check_files", "check_bcc", "compile_bpf",
              "check_root", "BPF"}

(***************************************************************************)
(* Python builtins.                                                        *)
(***************************************************************************)
\* all(xs)
All(xs) == \A k \in DOMAIN xs : xs[k]

\* xs[:n]
Prefix(xs, n) == SubSeq(xs, 1, IF n < Len(xs) THEN n ELSE Len(xs))

\* "=" * n
RECURSIVE Repeat(_, _)
Repeat(s, n) == IF n <= 0 THEN "" ELSE s \o Repeat(s, n - 1)

Banner == Repeat("=", BannerWidth)

\* The argument of one print: the text pre, then a glyph g ("" for none),
\* then the text.
Line(pre, g, text) == [pre |-> pre, g |-> g, text |-> text]
Plain(text) == Line("", "", text)

\* The glyphs as backslashreplace, xmlcharrefreplace and namereplace write
\* them; the first is also how str(e) of a UnicodeEncodeError names them.
CodePoint(g) ==
    IF g = Tick THEN "\\u2713" ELSE IF g = Cross THEN "\\u2717"
    ELSE IF g = Info THEN "\\u2139" ELSE IF g = PassMark THEN "\\u2705" ELSE "\\u274c"

CharRef(g) ==
    IF g = Tick THEN "&#10003;" ELSE IF g = Cross THEN "&#10007;"
    ELSE IF g = Info THEN "&#8505;" ELSE IF g = PassMark THEN "&#9989;" ELSE "&#10060;"

CharName(g) ==
    IF g = Tick THEN "\\N{CHECK MARK}" ELSE IF g = Cross THEN "\\N{BALLOT X}"
    ELSE IF g = Info THEN "\\N{INFORMATION SOURCE}"
    ELSE IF g = PassMark THEN "\\N{WHITE HEAVY CHECK MARK}" ELSE "\\N{CROSS MARK}"

\* What handler h writes for a glyph g the codec lacks.
Substitute(g, h) ==
    IF h = "replace" THEN "?" ELSE IF h = "ignore" THEN ""
    ELSE IF h = "backslashreplace" THEN CodePoint(g)
    ELSE IF h = "xmlcharrefreplace" THEN CharRef(g) ELSE CharName(g)

\* Whether stdout so takes the line, and what it then writes.
Prints(l, so) == l.g = "" \/ l.g \in Encodable(so.encoding) \/ so.errors \notin Raising
Written(l, so) ==
    l.pre \o (IF l.g = "" \/ l.g \in Encodable(so.encoding) THEN l.g
              ELSE Substitute(l.g, so.errors)) \o l.text

\* str(e) of the UnicodeEncodeError that print raises on line l.

EncodeErrorText(l, so) ==
    "'" \o so.encoding \o "' codec can't encode character '" \o CodePoint(l.g)
    \o "' in position " \o ToString(Len(l.pre)) \o ": "
    \o (IF so.encoding = "ascii" THEN "ordinal not in range(128)"
        ELSE "illegal multibyte sequence")

\* print(...) of each line of ls in turn: the lines written, and when a print
\* raises, the exception, the text of it, and nothing of that line or after.
Emit(ls, so) ==
    LET bad == {k \in DOMAIN ls : ~Prints(ls[k], so)}
        at == IF bad = {} THEN Len(ls) + 1 ELSE CHOOSE k \in bad : \A j \in bad : k <= j
    IN [out |-> [k \in 1..(at - 1) |-> Written(ls[k], so)],
        exc |-> IF bad = {} THEN "" ELSE "UnicodeEncodeError",
        msg |-> IF bad = {} THEN "" ELSE EncodeErrorText(ls[at], so)]

(***************************************************************************)
(* The checks.  Each yields the lines it prints, the value it returns and  *)
(* in exc the exception that leaves it, "" when it returns.                *)
(***************************************************************************)
check_root(u, so) ==
    LET p == Emit(<<IF u = RootUid
                    THEN Line("", Tick, " Running as root (optional for validation)")
                    ELSE Line("", Info, " Not running as root (this is OK for validation)")>>,
                  so)
    IN [out |-> p.out, ret |-> u = RootUid, exc |-> p.exc]

VersionText(v) ==
    " Python " \o ToString(v[1]) \o "." \o ToString(v[2]) \o "." \o ToString(v[3])
    \o " (requires 3.6+)"

\* Variant: the two thresholds joined by `or`.
VersionAcceptedEither(major, minor) == major >= ReqMajor \/ minor >= ReqMinor

\* The test of line 22: version.major >= 3 and version.minor >= 6
VersionAccepted(major, minor) == major >= ReqMajor /\ minor >= ReqMinor

check_python_version(v, so) ==
    LET ok == VersionAccepted(v[1], v[2])
        p == Emit(<<Line("", IF ok THEN Tick ELSE Cross, VersionText(v))>>, so)
    IN [out |-> p.out, ret |-> ok, exc |-> p.exc]

\* The print of line 36 is in the handler of ImportError: what it raises
\* leaves the function; so does what the import raises besides ImportError.
check_bcc(imp, so) ==
    IF imp = "ok"
    THEN LET p == Emit(<<Line("", Tick, " BCC Python module available")>>, so)
         IN [out |-> p.out, ret |-> TRUE, exc |-> p.exc]
    ELSE IF imp = "ImportError"
    THEN LET p == Emit(<<Line("", Cross, " BCC Python module not found"),
                         Plain("  Install with: sudo apt-get install python3-bpfcc")>>, so)
         IN [out |-> p.out, ret |-> FALSE, exc |-> p.exc]
    ELSE [out |-> <<>>, ret |-> FALSE, exc |-> imp]

FileLine(file, fs) ==
    IF file \in fs THEN Line("", Tick, " " \o file \o " exists")
    ELSE Line("", Cross, " " \o file \o " not found")

\* Variant: the loop is left at the first missing file.
check_files_pass_break(k, fs, all, so) ==
    LET p == Emit(<<FileLine(required_files[k], fs)>>, so)
    IN [out |-> p.out, exc |-> p.exc,
        all_exist |-> all /\ required_files[k] \in fs,
        next |-> IF required_files[k] \in fs THEN k + 1 ELSE Len(required_files) + 1]

\* One pass of the loop of lines 45-50, on the k-th file: os.path.exists is
\* asked once per pass, about the directory as it is then.
check_files_pass(k, fs, all, so) ==
    LET p == Emit(<<FileLine(required_files[k], fs)>>, so)
    IN [out |-> p.out, exc |-> p.exc,
        all_exist |-> all /\ required_files[k] \in fs,
        next |-> k + 1]

MapLine(map_name, maps) ==
    IF map_name \in maps THEN Line("  ", Tick, " Map '" \o map_name \o "' found")
    ELSE Line("  ", Cross, " Map '" \o map_name \o "' not found")

MapLines(maps) == [k \in DOMAIN required_maps |-> MapLine(required_maps[k], maps)]

\* The handler of lines 76-78, entered with the text msg of the exception
\* caught: what its own print raises leaves compile_bpf.
compile_bpf_except(msg, so) ==
    LET p == Emit(<<Line("", Cross, " BPF compilation failed: " \o msg)>>, so)
    IN [out |-> p.out, ret |-> FALSE, exc |-> p.exc]

\* Lines of the try block, then the handler when one of their prints raised.
compile_bpf_try(ls, so) ==
    LET p == Emit(ls, so)
        h == compile_bpf_except(p.msg, so)
    IN IF p.exc = "" THEN [out |-> p.out, ok |-> TRUE, exc |-> ""]
       ELSE [out |-> p.out \o h.out, ok |-> FALSE, exc |-> h.exc]

\* compile_bpf up to the call of BPF, lines 56-63: the import, the test of
\* bpf.c and the announcement.  go tells whether BPF(...) is called next;
\* when it is not, the function has returned False or has been left by exc.
compile_bpf_enter(imp, fs, so) ==
    IF imp # "ok"
    THEN LET h == compile_bpf_except(ImportMessage(imp), so)
         IN [out |-> h.out, go |-> FALSE, exc |-> h.exc]
    ELSE IF "bpf.c" \notin fs
    THEN LET t == compile_bpf_try(<<Line("", Cross, " bpf.c not found")>>, so)
         IN [out |-> t.out, go |-> FALSE, exc |-> t.exc]
    ELSE [out |-> <<"Compiling BPF program...">>, go |-> TRUE, exc |-> ""]

\* compile_bpf from the call of BPF on, lines 64-78, o being what BPF(...)
\* and the tests of line 69 do.  The handler of line 76 catches every
\* Exception, that of a print of lines 65-73 included, and nothing else.
compile_bpf_load(o, so) ==
    IF o.kind = "raise"
    THEN IF o.cls \in Caught THEN compile_bpf_except(o.msg, so)
         ELSE [out |-> <<>>, ret |-> FALSE, exc |-> o.cls]
    ELSE LET n == IF o.stop = 0 THEN Len(required_maps) ELSE o.stop - 1
             t == compile_bpf_try(<<Line("", Tick, " BPF program compiled successfully")>>
                                  \o SubSeq(MapLines(o.maps), 1, n), so)
             h == compile_bpf_except(o.msg, so)
         IN IF ~t.ok \/ o.stop = 0 THEN [out |-> t.out, ret |-> t.ok, exc |-> t.exc]
            ELSE IF o.cls \in Caught
            THEN [out |-> t.out \o h.out, ret |-> FALSE, exc |-> h.exc]
            ELSE [out |-> t.out, ret |-> FALSE, exc |-> o.cls]

\* What a call of BPF(...) can do.
BPFOutcomes == ProbeOutcomes

\* The kernel's refusal of a caller who may not load programs, as the
\* library passes it on.
Refused ==
    [kind |-> "raise", cls |-> "Exception", msg |-> "Failed to load BPF program",
     maps |-> {}, stop |-> 0]

\* The library on a host: whether its kernel lets root alone load programs
\* (the script itself starts the detector with sudo, line 119), what
\* BPF(src_file="bpf.c", ...) does for a caller it admits, and what the call
\* leaves in the working directory.  The script hands the library a source
\* path, a flag and debug=0; the rest is the library's.
Libraries ==
    [rootOnly : BOOLEAN, does : BPFOutcomes, leaves : SUBSET BuildArtifacts]

LibraryUnknown == [rootOnly |-> FALSE, does |-> ProbeUnknown, leaves |-> {}]

\* BPF(src_file="bpf.c", ...) called by uid u on a host with library lib.
BPF(lib, u) == IF lib.rootOnly /\ u # RootUid THEN Refused ELSE lib.does

(***************************************************************************)
(* main().                                                                 *)
(***************************************************************************)
\* Variant: the slice stops one short, results[:2].
PrerequisitesFirstTwo(rs) == All(Prefix(rs, 2))

\* Variant: the compilation is also made to wait for root.
PrerequisitesAndRoot(rs) == All(Prefix(rs, 3)) /\ uid = RootUid

\* Variant: any() written for all().
PrerequisitesAny(rs) == \E k \in DOMAIN Prefix(rs, 3) : rs[k]

\* line 101: all(results[:3])
PrerequisitesMet(rs) == All(Prefix(rs, 3))

\* Variant: the verdict is taken over the prerequisites only.
VerdictFirstThree(rs) == All(Prefix(rs, 3))

\* line 115: all(results)
Verdict(rs) == All(rs)

Header == <<Banner, "eBPF Ransomware Detector - Validation Script", Banner, "">>

PassBanner ==
    <<Plain(Banner), Line("", PassMark, " All validations passed!"), Plain(""),
      Plain("System is ready to run the detector:"), Plain("  sudo python3 detector.py")>>

FailBanner ==
    <<Plain(Banner), Line("", FailMark, " Some validations failed"), Plain(""),
      Plain("Please fix the issues above before running the detector.")>>

Called(f) == [calls EXCEPT ![f] = @ + 1]

\* sys.stdout as the process has it.
Stdout == [encoding |-> encoding, errors |-> errors]

NoCalls == [f \in Functions |-> 0]
NoPrev == [results |-> <<>>, ret |-> Unset, pc |-> "Start", uid |-> 0]

Init ==
    /\ version \in Versions
    /\ \E so \in Stdouts : encoding = so.encoding /\ errors = so.errors
    /\ files \in FileSets
    /\ uid \in Uids
    /\ bccImport \in ImportOutcomes
    /\ bpf = LibraryUnknown
    /\ probe = ProbeUnknown
    /\ pc = "Start"
    /\ results = <<>>
    /\ i = 0
    /\ all_exist = TRUE
    /\ stdout = <<>>
    /\ ret = Unset
    /\ raised = ""
    /\ calls = NoCalls
    /\ run = 1
    /\ prev = NoPrev

\* The interpreter compiles the file and, at lines 127-128, enters main();
\* an interpreter that cannot compile it ends with a SyntaxError, nothing
\* printed, no function entered.
StartStep ==
    /\ pc = "Start"
    /\ IF Compiles(version)
       THEN pc' = "Init" /\ raised' = raised
       ELSE pc' = "NotCompiled" /\ raised' = "SyntaxError"
    /\ UNCHANGED <<version, encoding, errors, files, uid, bccImport, bpf, probe,
                   results, i, all_exist, stdout, ret, calls, run, prev>>

\* lines 82-91; the exception of a print that cannot encode leaves main()
VersionStep ==
    /\ pc = "Init"
    /\ LET r == check_python_version(version, Stdout) IN
        IF r.exc = ""
        THEN /\ stdout' = stdout \o Header \o <<"1. Checking Python version...">>
                                 \o r.out \o <<"">>
             /\ results' = Append(results, r.ret)
             /\ pc' = "VersionChecked"
             /\ raised' = raised
        ELSE /\ stdout' = stdout \o Header \o <<"1. Checking Python version...">> \o r.out
             /\ results' = results
             /\ pc' = "Crashed"
             /\ raised' = r.exc
    /\ calls' = Called("check_python_version")
    /\ UNCHANGED <<version, encoding, errors, files, uid, bccImport, bpf, probe, i,
                   all_exist, ret, run, prev>>

\* lines 93-95, one pass of the loop of check_files per step.  The first pass
\* comes with the call (lines 93-94, 42-43), the last with the return and the
\* append (lines 52, 94-95); a print that raises ends the loop and main().
FilesStep ==
    /\ pc = "VersionChecked"
    /\ LET first == i = 0
           k == IF first THEN 1 ELSE i
           r == check_files_pass(k, files, IF first THEN TRUE ELSE all_exist, Stdout)
           last == r.next > Len(required_files)
       IN
        /\ stdout' = stdout \o (IF first THEN <<"2. Checking required files...">> ELSE <<>>)
                            \o r.out \o (IF last /\ r.exc = "" THEN <<"">> ELSE <<>>)
        /\ calls' = IF first THEN Called("check_files") ELSE calls
        /\ IF r.exc # ""
           THEN /\ results' = results
                /\ i' = 0
                /\ all_exist' = TRUE
                /\ pc' = "Crashed"
                /\ raised' = r.exc
           ELSE IF last
           THEN /\ results' = Append(results, r.all_exist)
                /\ i' = 0
                /\ all_exist' = TRUE
                /\ pc' = "FilesChecked"
                /\ raised' = raised
           ELSE /\ results' = results
                /\ i' = r.next
                /\ all_exist' = r.all_exist
                /\ pc' = pc
                /\ raised' = raised
    /\ UNCHANGED <<version, encoding, errors, files, uid, bccImport, bpf, probe, ret,
                   run, prev>>

\* lines 97-99; an exception check_bcc does not catch leaves main() and ends
\* the process with a traceback
RuntimeStep ==
    /\ pc = "FilesChecked"
    /\ LET r == check_bcc(bccImport, Stdout) IN
        IF r.exc = ""
        THEN /\ stdout' = stdout \o <<"3. Checking BCC availability...">> \o r.out \o <<"">>
             /\ results' = Append(results, r.ret)
             /\ pc' = "RuntimeChecked"
             /\ raised' = raised
        ELSE /\ stdout' = stdout \o <<"3. Checking BCC availability...">> \o r.out
             /\ results' = results
             /\ pc' = "Crashed"
             /\ raised' = r.exc
    /\ calls' = Called("check_bcc")
    /\ UNCHANGED <<version, encoding, errors, files, uid, bccImport, bpf, probe, i,
                   all_exist, ret, run, prev>>

\* lines 101-103 and compile_bpf up to line 63: compile_bpf returns False at
\* once, or is left by an exception, or stands before the call of BPF
CompileStep ==
    /\ pc = "RuntimeChecked"
    /\ PrerequisitesMet(results)
    /\ LET r == compile_bpf_enter(bccImport, files, Stdout) IN
        IF r.exc # ""
        THEN /\ stdout' = stdout \o <<"4. Compiling BPF program...">> \o r.out
             /\ results' = results
             /\ pc' = "Crashed"
             /\ raised' = r.exc
        ELSE IF r.go
        THEN /\ stdout' = stdout \o <<"4. Compiling BPF program...">> \o r.out
             /\ results' = results
             /\ pc' = "Compiling"
             /\ raised' = raised
        ELSE /\ stdout' = stdout \o <<"4. Compiling BPF program...">> \o r.out \o <<"">>
             /\ results' = Append(results, FALSE)
             /\ pc' = "CompileChecked"
             /\ raised' = raised
    /\ calls' = Called("compile_bpf")
    /\ UNCHANGED <<version, encoding, errors, files, uid, bccImport, bpf, probe, i,
                   all_exist, ret, run, prev>>

\* lines 64-78 and 103-104: the call of BPF, whatever the directory holds by
\* now, the report on the maps, the return and the append.  The library is
\* the host's: the first call shows what it does, and a later call finds it
\* the same.
LoadStep ==
    /\ pc = "Compiling"
    /\ \E lib \in Libraries :
        /\ bpf = LibraryUnknown \/ lib = bpf
        /\ bpf' = lib
        /\ probe' = BPF(lib, uid)
        /\ files' = files \cup lib.leaves
        /\ LET r == compile_bpf_load(BPF(lib, uid), Stdout) IN
            IF r.exc = ""
            THEN /\ stdout' = stdout \o r.out \o <<"">>
                 /\ results' = Append(results, r.ret)
                 /\ pc' = "CompileChecked"
                 /\ raised' = raised
            ELSE /\ stdout' = stdout \o r.out
                 /\ results' = results
                 /\ pc' = "Crashed"
                 /\ raised' = r.exc
    /\ calls' = Called("BPF")
    /\ UNCHANGED <<version, encoding, errors, uid, bccImport, i, all_exist, ret, run,
                   prev>>

\* Variant: the skipped check is left out of the results.
SkipStepOmitted ==
    /\ pc = "RuntimeChecked"
    /\ ~PrerequisitesMet(results)
    /\ stdout' = stdout \o <<"4. Skipping BPF compilation (prerequisites not met)", "">>
    /\ pc' = "CompileSkipped"
    /\ UNCHANGED <<version, encoding, errors, files, uid, bccImport, bpf, probe,
                   results, i, all_exist, ret, raised, calls, run, prev>>

\* lines 105-108
SkipStep ==
    /\ pc = "RuntimeChecked"
    /\ ~PrerequisitesMet(results)
    /\ stdout' = stdout \o <<"4. Skipping BPF compilation (prerequisites not met)", "">>
    /\ results' = Append(results, FALSE)
    /\ pc' = "CompileSkipped"
    /\ UNCHANGED <<version, encoding, errors, files, uid, bccImport, bpf, probe, i,
                   all_exist, ret, raised, calls, run, prev>>

\* lines 110-112: the value check_root returns is dropped
PrivilegeStep ==
    /\ pc \in {"CompileChecked", "CompileSkipped"}
    /\ LET r == check_root(uid, Stdout) IN
        IF r.exc = ""
        THEN /\ stdout' = stdout \o <<"5. Checking permissions...">> \o r.out \o <<"">>
             /\ pc' = "PrivilegeReported"
             /\ raised' = raised
        ELSE /\ stdout' = stdout \o <<"5. Checking permissions...">> \o r.out
             /\ pc' = "Crashed"
             /\ raised' = r.exc
    /\ calls' = Called("check_root")
    /\ UNCHANGED <<version, encoding, errors, files, uid, bccImport, bpf, probe,
                   results, i, all_exist, ret, run, prev>>

\* Variant: the failure branch prints its banner and falls off the end of
\* main(), so that sys.exit receives None and the process exits with 0.
VerdictStepNoReturn ==
    /\ pc = "PrivilegeReported"
    /\ LET p == Emit(IF Verdict(results) THEN PassBanner ELSE FailBanner, Stdout) IN
        /\ stdout' = stdout \o p.out
        /\ IF p.exc = ""
           THEN ret' = 0 /\ pc' = "Done" /\ raised' = raised
           ELSE ret' = ret /\ pc' = "Crashed" /\ raised' = p.exc
    /\ UNCHANGED <<version, encoding, errors, files, uid, bccImport, bpf, probe,
                   results, i, all_exist, calls, run, prev>>

\* lines 114-125; main() returns after the last print of its branch
VerdictStep ==
    /\ pc = "PrivilegeReported"
    /\ LET p == Emit(IF Verdict(results) THEN PassBanner ELSE FailBanner, Stdout) IN
        /\ stdout' = stdout \o p.out
        /\ IF p.exc = ""
           THEN ret' = (IF Verdict(results) THEN 0 ELSE 1) /\ pc' = "Done" /\ raised' = raised
           ELSE ret' = ret /\ pc' = "Crashed" /\ raised' = p.exc
    /\ UNCHANGED <<version, encoding, errors, files, uid, bccImport, bpf, probe,
                   results, i, all_exist, calls, run, prev>>

\* lines 127-128: the script is started a second time on the same host, by the
\* same or by another user
RunAgain ==
    /\ pc \in {"Done", "Crashed", "NotCompiled"}
    /\ run = 1
    /\ run' = 2
    /\ prev' = [results |-> results, ret |-> ret, pc |-> pc, uid |-> uid]
    /\ uid' \in Uids
    /\ probe' = ProbeUnknown
    /\ pc' = "Start"
    /\ results' = <<>>
    /\ stdout' = <<>>
    /\ ret' = Unset
    /\ raised' = ""
    /\ calls' = NoCalls
    /\ UNCHANGED <<version, encoding, errors, files, bccImport, bpf, i, all_exist>>

\* Another process removes a file of the working directory while the script
\* runs: what os.path.exists answers at line 46 need not be what it answers
\* at line 59, nor what BPF(...) finds at line 64.
ExternalRemove ==
    /\ \E f \in files : files' = files \ {f}
    /\ UNCHANGED <<version, encoding, errors, uid, bccImport, bpf, probe, pc, results,
                   i, all_exist, stdout, ret, raised, calls, run, prev>>

\* The steps of one run of the script.
Run ==
    \/ StartStep
    \/ VersionStep
    \/ FilesStep
    \/ RuntimeStep
    \/ CompileStep
    \/ LoadStep
    \/ SkipStep
    \/ PrivilegeStep
    \/ VerdictStep

Next == Run \/ RunAgain

Spec == Init /\ [][Next]_vars

NextEnv == Run \/ ExternalRemove

\* One run of the script on a host whose working directory other processes
\* write to.
SpecEnv == Init /\ [][NextEnv]_vars

\* check_python_version called on its own, sys.version_info being any
\* version triple: the function as a unit, apart from what interpreter could
\* run the file.
InitUnit ==
    /\ version \in Versions
    /\ \E so \in Stdouts : encoding = so.encoding /\ errors = so.errors
    /\ files = Range(required_files)
    /\ uid = RootUid
    /\ bccImport = "ok"
    /\ bpf = LibraryUnknown
    /\ probe = ProbeUnknown
    /\ pc = "Call"
    /\ results = <<>>
    /\ i = 0
    /\ all_exist = TRUE
    /\ stdout = <<>>
    /\ ret = Unset
    /\ raised = ""
    /\ calls = NoCalls
    /\ run = 1
    /\ prev = NoPrev

CallVersionCheck ==
    /\ pc = "Call"
    /\ LET r == check_python_version(version, Stdout) IN
        /\ stdout' = stdout \o r.out
        /\ results' = IF r.exc = "" THEN Append(results, r.ret) ELSE results
        /\ pc' = IF r.exc = "" THEN "Returned" ELSE "Raised"
        /\ raised' = r.exc
    /\ calls' = Called("check_python_version")
    /\ UNCHANGED <<version, encoding, errors, files, uid, bccImport, bpf, probe, i,
                   all_exist, ret, run, prev>>

NextUnit == CallVersionCheck

SpecUnit == InitUnit /\ [][NextUnit]_vars

\* The shape of the states of Spec and SpecEnv.
TypeOK ==
    /\ version \in Versions
    /\ Stdout \in Stdouts
    /\ files \in SUBSET (Range(required_files) \cup BuildArtifacts)
    /\ uid \in Uids
    /\ bccImport \in ImportOutcomes
    /\ bpf \in Libraries \cup {LibraryUnknown}
    /\ probe \in BPFOutcomes \cup {Refused, ProbeUnknown}
    /\ pc \in {"Start", "NotCompiled", "Init", "VersionChecked", "FilesChecked",
               "RuntimeChecked", "Compiling", "CompileChecked", "CompileSkipped",
               "PrivilegeReported", "Done", "Crashed"}
    /\ results \in [1..Len(results) -> BOOLEAN] /\ Len(results) <= 4
    /\ i \in 0..Len(required_files) /\ all_exist \in BOOLEAN
    /\ i # 0 => pc = "VersionChecked"
    /\ ret \in {Unset, 0, 1}
    /\ raised \in {"", "SyntaxError", "UnicodeEncodeError", "OSError", "SystemExit"}
    /\ pc \in {"Crashed", "NotCompiled"} <=> raised # ""
    /\ prev.ret \in {Unset, 0, 1}
    /\ calls \in [Functions -> 0..1]
    /\ run \in {1, 2}

(***************************************************************************)
(* Properties.                                                             *)
(***************************************************************************)
Returned == pc = "Done"

\* How a glyph shows on this host's stdout.
Mark(g) == Written(Line("", g, ""), Stdout)

\* stdout takes the whole report: no print of the script raises.
StdoutPrints == \A g \in Glyphs : Prints(Line("", g, ""), Stdout)

\* A host whose interpreter runs the script and whose stdout prints it.
HostRunsScript == Compiles(version) /\ StdoutPrints

SkipLine == "4. Skipping BPF compilation (prerequisites not met)"

\* The outcome of each gating check on this host, read off the host and the
\* calls made, not off main's list.
VersionPasses == version[1] >= 3 /\ version[2] >= 6
FilesPass == \A k \in DOMAIN required_files : required_files[k] \in files
RuntimePasses == bccImport = "ok"
CompilePasses == calls["compile_bpf"] = 1 /\ calls["BPF"] = 1 /\ Answered(probe)

\* C1: when main() returns, it returns 0 if the version, files, bcc and
\* compilation checks all passed, and 1 in every other case, a skipped
\* compilation included.
C1_ExitStatus ==
    Returned =>
        /\ ret \in {0, 1}
        /\ ret = 0 <=> (VersionPasses /\ FilesPass /\ RuntimePasses /\ CompilePasses)

C1_Witness ==
    /\ Returned /\ ret = 1
    /\ VersionPasses /\ FilesPass /\ RuntimePasses
    /\ calls["compile_bpf"] = 1 /\ probe.kind = "raise"

\* C2: on a host that runs the script and whose library compiles and loads
\* the program, a repeated run that differs from the first at most in the uid
\* ends the same way, with the same four gating outcomes and the same return
\* value.
C2_PrivilegeAdvisory ==
    (run = 2 /\ pc \in {"Done", "Crashed"} /\ HostRunsScript /\ bpf.does \in Handles) =>
        /\ pc = prev.pc
        /\ results = prev.results
        /\ ret = prev.ret

\* What of it the script keeps: check_root's value is never appended, and on
\* a host whose kernel lets every user load programs the uid changes nothing.
PrivilegeNotRecorded ==
    /\ Len(results) <= 4
    /\ (run = 2 /\ pc \in {"Done", "Crashed"} /\ ~bpf.rootOnly) =>
        /\ pc = prev.pc
        /\ results = prev.results
        /\ ret = prev.ret

\* C3: once one of the first three checks has returned false, neither
\* compile_bpf nor BPF(...) is entered in that run, and the fourth result,
\* when recorded, is false and comes with the "prerequisites not met" line.
C3_SkippedNotCompiled ==
    (\E k \in 1..3 : k <= Len(results) /\ ~results[k]) =>
        /\ calls["compile_bpf"] = 0
        /\ calls["BPF"] = 0
        /\ Len(results) >= 4 => (~results[4] /\ SkipLine \in Range(stdout))
        /\ pc \in {"PrivilegeReported", "Done"} => Len(results) >= 4

C3_Witness ==
    /\ Returned
    /\ files = {"detector.py", "bpf.c"}
    /\ VersionPasses /\ RuntimePasses
    /\ ~results[4] /\ SkipLine \in Range(stdout)

\* C4: when the first three checks all passed, compile_bpf is entered exactly
\* once in the run; it is never entered a second time.
C4_CompiledOnce ==
    /\ calls["compile_bpf"] <= 1
    /\ (Len(results) >= 4 /\ results[1] /\ results[2] /\ results[3]) =>
            calls["compile_bpf"] = 1
    /\ (pc \in {"CompileChecked", "CompileSkipped", "PrivilegeReported", "Done"}
        /\ VersionPasses /\ FilesPass /\ RuntimePasses) => calls["compile_bpf"] = 1

C4_Witness ==
    /\ Returned /\ uid # RootUid
    /\ results[1] /\ results[2] /\ results[3]
    /\ calls["compile_bpf"] = 1

\* C5 as stated: at the end of main() the results hold five outcomes.
C5_FiveOutcomes == Returned => Len(results) = 5

\* C5 as amended: at the end of main() the results hold exactly four
\* outcomes, those of the version, files, bcc and compilation checks, whether
\* the compilation ran or was skipped; a skipped compilation is a false
\* fourth entry; the privilege check is run and printed but not recorded.
C5_FourOutcomes ==
    Returned =>
        /\ Len(results) = 4
        /\ calls["compile_bpf"] = 0 => ~results[4]
        /\ calls["check_root"] = 1
        /\ "5. Checking permissions..." \in Range(stdout)

C5_Witness ==
    /\ Returned /\ calls["compile_bpf"] = 0
    /\ Len(results) = 4 /\ ~results[4]

\* C6: when BPF(...) raises an Exception, compile_bpf returns false and
\* prints the exception's text; nothing leaves main(), the privilege check
\* still runs and main() returns 1.
C6_CompileErrorCaught ==
    (calls["BPF"] = 1 /\ probe.kind = "raise" /\ probe.cls \in Caught) =>
        /\ pc # "Crashed" /\ raised = ""
        /\ Len(results) = 4 /\ ~results[4]
        /\ (Mark(Cross) \o " BPF compilation failed: " \o probe.msg) \in Range(stdout)
        /\ pc \in {"PrivilegeReported", "Done"} => calls["check_root"] = 1
        /\ Returned => ret = 1

\* The same on a stdout that takes the report.
CompileErrorCaughtWherePrinted == StdoutPrints => C6_CompileErrorCaught

\* What BPF(...) raises outside the classes of line 76 leaves main().
UncaughtLeavesMain ==
    (calls["BPF"] = 1 /\ probe.kind = "raise" /\ probe.cls \in Uncaught) =>
        pc = "Crashed" /\ raised = probe.cls /\ Len(results) = 3

\* C7: whatever way the import of bcc fails, check_bcc returns false with its
\* remediation text, nothing leaves the check and the run goes on.
C7_ImportFailureRecovered ==
    (calls["check_bcc"] = 1 /\ bccImport # "ok") =>
        /\ pc # "Crashed" /\ raised = ""
        /\ Len(results) >= 3 /\ ~results[3]
        /\ "  Install with: sudo apt-get install python3-bpfcc" \in Range(stdout)

\* C8: check_python_version returns true for every version with major >= 3
\* and minor >= 6, and false for every version with major < 3, whatever the
\* minor and the micro.
C8_VersionThresholds ==
    Len(results) >= 1 =>
        /\ (version[1] >= 3 /\ version[2] >= 6) => results[1]
        /\ version[1] < 3 => ~results[1]

C8_Witness ==
    /\ pc = "Returned"
    /\ version[1] < 3 /\ version[2] >= 6 /\ version[3] > 0
    /\ ~results[1]

\* C9: check_python_version returns true exactly for the versions at or above
\* 3.6 in the order of (major, minor), 4.0 among them.
C9_VersionLexicographic ==
    Len(results) >= 1 =>
        (results[1] <=> (version[1] > 3 \/ (version[1] = 3 /\ version[2] >= 6)))

\* The lines check_files printed: those between the heading of section 2 and
\* the empty line that closes it.
FilesHeading == "2. Checking required files..."
FilesSection ==
    LET k == CHOOSE n \in DOMAIN stdout : stdout[n] = FilesHeading
        e == CHOOSE j \in DOMAIN stdout :
                 /\ j > k /\ stdout[j] = ""
                 /\ \A m \in (k + 1)..(j - 1) : stdout[m] # ""
    IN SubSeq(stdout, k + 1, e - 1)

\* C10: for each of the 8 sets of files, check_files returns true iff
\* detector.py, bpf.c and bpf.h all exist, and prints one line per file, in
\* the order of the list: "exists" for the files present, "not found" for the
\* absent ones, also after a first missing one.
C10_FilesReported ==
    Len(results) >= 2 =>
        /\ results[2] <=> ({"detector.py", "bpf.c", "bpf.h"} \subseteq files)
        /\ FilesSection =
             [n \in 1..3 |->
                LET f == <<"detector.py", "bpf.c", "bpf.h">>[n] IN
                IF f \in files THEN Mark(Tick) \o " " \o f \o " exists"
                ELSE Mark(Cross) \o " " \o f \o " not found"]

C10_Witness ==
    /\ pc = "FilesChecked"
    /\ files = {"bpf.h"}
    /\ ~results[2]
    /\ FilesSection = <<"[x] detector.py not found", "[x] bpf.c not found",
                        "[v] bpf.h exists">>

\* The names of the five tables, as the claim lists them.
FiveTables == {"config", "patterns", "threshold_patterns", "pidstats", "events"}

\* C11: when BPF(...) returns a handle that tells of each table whether it
\* holds it, compile_bpf returns true whichever of the five tables the handle
\* holds; each table gets its own "found" or "not found" line, and main()
\* returns 0 all the same.
C11_TablesInformational ==
    (calls["BPF"] = 1 /\ Answered(probe)) =>
        /\ probe.maps \in SUBSET FiveTables
        /\ Len(results) = 4 /\ results[4]
        /\ \A t \in FiveTables :
            /\ ("  " \o Mark(Tick) \o " Map '" \o t \o "' found") \in Range(stdout)
                    <=> t \in probe.maps
            /\ ("  " \o Mark(Cross) \o " Map '" \o t \o "' not found") \in Range(stdout)
                    <=> t \notin probe.maps
        /\ Returned => ret = 0

\* The same on a stdout that takes the report.
TablesInformationalWherePrinted == StdoutPrints => C11_TablesInformational

\* The state of section 4.6 main() is in: the process is in Init until the
\* first check has returned, and in RuntimeChecked while compile_bpf runs.
MainState(p) ==
    IF p = "Start" THEN "Init" ELSE IF p = "Compiling" THEN "RuntimeChecked" ELSE p

\* The order of states of section 4.6; a finished process may be started again.
StateOrder ==
    {<<"Init", "VersionChecked">>, <<"VersionChecked", "FilesChecked">>,
     <<"FilesChecked", "RuntimeChecked">>, <<"RuntimeChecked", "CompileChecked">>,
     <<"RuntimeChecked", "CompileSkipped">>, <<"CompileChecked", "PrivilegeReported">>,
     <<"CompileSkipped", "PrivilegeReported">>, <<"PrivilegeReported", "Done">>,
     <<"Done", "Init">>}

SectionHeadings ==
    {"1. Checking Python version...", "2. Checking required files...",
     "3. Checking BCC availability...", "4. Compiling BPF program...",
     "4. Skipping BPF compilation (prerequisites not met)",
     "5. Checking permissions..."}

IsHeading(line) == line \in SectionHeadings

HeadingsInOrder(out, compiled) ==
    SelectSeq(out, IsHeading) =
        <<"1. Checking Python version...", "2. Checking required files...",
          "3. Checking BCC availability...",
          IF compiled THEN "4. Compiling BPF program..."
          ELSE "4. Skipping BPF compilation (prerequisites not met)",
          "5. Checking permissions...">>

\* C12: on a host that runs the script, every step of a run leaves main() in
\* its state or moves it to the next state of the order Init, VersionChecked,
\* FilesChecked, RuntimeChecked, CompileChecked or CompileSkipped,
\* PrivilegeReported, Done; the branch is taken on the first three results;
\* the five section headings are printed in the order 1 to 5.
C12_StateOrder ==
    [][HostRunsScript =>
        /\ \/ MainState(pc') = MainState(pc)
           \/ <<MainState(pc), MainState(pc')>> \in StateOrder
        /\ (MainState(pc) = "RuntimeChecked" /\ MainState(pc') # MainState(pc)) =>
             (pc' = "CompileChecked" <=> (results[1] /\ results[2] /\ results[3]))
        /\ pc' = "Done" => HeadingsInOrder(stdout', calls["compile_bpf"] = 1)]_vars

\* The steps that end a process outside the order: the file does not compile,
\* a print raises on a glyph, the import of bcc raises.
CrashSteps ==
    {<<"Init", "NotCompiled">>, <<"NotCompiled", "Init">>, <<"Crashed", "Init">>}
    \cup {<<s, "Crashed">> : s \in {"Init", "VersionChecked", "FilesChecked",
                                    "RuntimeChecked", "CompileChecked", "CompileSkipped",
                                    "PrivilegeReported"}}

\* The same order with the steps added that end a process early.
StateOrderOrCrash ==
    [][/\ \/ MainState(pc') = MainState(pc)
          \/ <<MainState(pc), MainState(pc')>> \in StateOrder \cup CrashSteps
       /\ (MainState(pc) = "RuntimeChecked" /\ MainState(pc') # MainState(pc)
           /\ pc' # "Crashed") =>
            (pc' = "CompileChecked" <=> (results[1] /\ results[2] /\ results[3]))
       /\ pc' = "Done" => HeadingsInOrder(stdout', calls["compile_bpf"] = 1)]_vars

\* C13: on a host whose interpreter runs the script and whose stdout prints
\* it, whatever is missing or fails, no run ends without a verdict: main() is
\* never left by an exception, and a run that has ended has returned 0 or 1.
C13_VerdictReached ==
    HostRunsScript =>
        /\ pc # "Crashed"
        /\ raised = ""
        /\ pc = "Done" => ret \in {0, 1}

\* One run in which each step of main() is taken once it is enabled: the
\* script runs on.
LiveSpec == Init /\ [][Run]_vars /\ WF_vars(Run)

\* On such a host, where moreover the import of bcc returns or raises
\* ImportError, every run reaches Done, unless BPF(...) raises what line 76
\* does not catch.
TerminatesUnlessImportRaises ==
    (HostRunsScript /\ bccImport \in {"ok", "ImportError"})
        => <>((pc = "Done" /\ ret \in {0, 1}) \/ raised \in Uncaught)

\* What the script itself does to the directory and what a second run sees
\* (C14 is not settled by it): every step but the call of BPF(...) leaves the
\* files of the working directory as they are, and a second run by the same
\* user ends where the first ended, with the same results and return value.
ScriptReadsOnly ==
    [][/\ pc # "Compiling" => files' = files
       /\ (run' = 2 /\ pc' \in {"Done", "Crashed", "NotCompiled"} /\ uid' = prev'.uid) =>
            /\ pc' = prev'.pc
            /\ results' = prev'.results
            /\ ret' = prev'.ret]_vars

\* The call of BPF(...) may leave a file behind.
LibraryWrote == calls["BPF"] = 1 /\ files \ Range(required_files) # {}

IndependentChecks == {"check_python_version", "check_files", "check_bcc", "check_root"}

\* C15: on a host that runs the script, in every run each of
\* check_python_version, check_files, check_bcc and check_root is entered
\* exactly once by the time the run has ended, whatever came before it; no
\* check is entered twice.
C15_IndependentChecksRun ==
    /\ \A f \in Functions : calls[f] <= 1
    /\ (HostRunsScript /\ pc \in {"Done", "Crashed"}) =>
            \A f \in IndependentChecks : calls[f] = 1

\* The same for the runs in which main() returns.
IndependentChecksRunWhenReturned ==
    /\ \A f \in Functions : calls[f] <= 1
    /\ pc = "Done" => \A f \in IndependentChecks : calls[f] = 1

\* C16: compile_bpf tests bpf.c again: it goes on to the call of BPF(...)
\* only from a step that finds bpf.c present, and BPF(...) is called nowhere
\* else; when bpf.c is gone by the time of that test, although check_files saw
\* it, compile_bpf returns false with "bpf.c not found" and without calling
\* BPF(...), and main() returns 1.
C16_SourceRetested ==
    [][/\ calls'["BPF"] = calls["BPF"] + 1 => pc = "Compiling"
       /\ (pc' = "Compiling" /\ pc # "Compiling") =>
             /\ calls'["compile_bpf"] = calls["compile_bpf"] + 1
             /\ "bpf.c" \in files
       /\ (calls'["compile_bpf"] = calls["compile_bpf"] + 1 /\ "bpf.c" \notin files) =>
             /\ calls'["BPF"] = calls["BPF"]
             /\ pc' = "CompileChecked"
             /\ ~results'[4]
             /\ stdout' = stdout \o <<"4. Compiling BPF program...",
                                      Mark(Cross) \o " bpf.c not found", "">>
       /\ (calls'["compile_bpf"] = 1 /\ calls'["BPF"] = 0 /\ pc' # "Compiling") =>
             /\ Len(results') = 4 /\ ~results'[4]
             /\ pc' = "Done" => ret' = 1]_vars

\* The part of it that holds on every stdout: BPF(...) is called only after a
\* test that found bpf.c, and never from a run whose test found it gone.
SourceTestedBeforeCall ==
    [][/\ calls'["BPF"] = calls["BPF"] + 1 => pc = "Compiling"
       /\ (pc' = "Compiling" /\ pc # "Compiling") =>
             /\ calls'["compile_bpf"] = calls["compile_bpf"] + 1
             /\ "bpf.c" \in files
       /\ (calls'["compile_bpf"] = calls["compile_bpf"] + 1 /\ "bpf.c" \notin files) =>
             /\ calls'["BPF"] = calls["BPF"]
             /\ pc' \in {"CompileChecked", "Crashed"}]_vars

\* The test and the call are two steps: bpf.c can be removed between them,
\* and BPF(...) is then called without it.
CalledWithoutSource ==
    pc = "CompileChecked" /\ calls["BPF"] = 1 /\ "bpf.c" \notin files

\* C17: the command to start the detector is printed exactly in the runs
\* that return 0, and the failure verdict exactly in the runs that return 1;
\* before main() returns neither is printed.
C17_BannerMatchesStatus ==
    /\ "  sudo python3 detector.py" \in Range(stdout) <=> ret = 0
    /\ (Mark(PassMark) \o " All validations passed!") \in Range(stdout) <=> ret = 0
    /\ (Mark(FailMark) \o " Some validations failed") \in Range(stdout) <=> ret = 1
    /\ Returned => ret \in {0, 1}

C17_Witness ==
    /\ Returned /\ ret = 1
    /\ "[FAIL] Some validations failed" \in Range(stdout)
    /\ "  sudo python3 detector.py" \notin Range(stdout)
    /\ uid = RootUid

\* C18: a true fourth result comes only after three true results; the value
\* main() returns is decided by the fourth result alone; 0 is returned only
\* by runs that went through the compilation, never by runs that skipped it.
C18_CompileDecides ==
    /\ (Len(results) >= 4 /\ results[4]) => (results[1] /\ results[2] /\ results[3])
    /\ Returned => (ret = 0 <=> results[4])
    /\ (Returned /\ ret = 0) =>
            /\ calls["compile_bpf"] = 1
            /\ "4. Compiling BPF program..." \in Range(stdout)
            /\ SkipLine \notin Range(stdout)
    /\ pc = "CompileSkipped" => ~results[4]

C18_Witness ==
    /\ Returned /\ ret = 0
    /\ results = <<TRUE, TRUE, TRUE, TRUE>>
    /\ calls["compile_bpf"] = 1

====
